---- MODULE Spec2Model ----
(***************************************************************************)
(* Model of the quote-generation service: the Fastify route                *)
(* POST /api/generatequote, the credential preHandler added by the         *)
(* Salesforce plugin, and generateQuote, which queries the line items of   *)
(* an Opportunity and writes a Quote with its QuoteLineItems through one   *)
(* unit of work.  The backing store (the org behind the SDK's dataApi) is  *)
(* the environment: it answers a query with records or an error and a      *)
(* commit with a result map or an error.                                   *)
(* A request advances one synchronous stretch of code at a time: between   *)
(* two awaits, and between the settlement of generateQuote and the reply   *)
(* of the handler, the steps of another request may run.                   *)
(* The start-up of the server registers its plugins in order; Fastify     *)
(* runs the onRoute hooks added so far on every route registered and       *)
(* validates the body of a request ahead of the preHandlers of its route.  *)
(*                                                                         *)
(* JavaScript values: an object is a record, `undefined` is the empty      *)
(* tuple and a defined value v is <<v>> where a property may be absent; a   *)
(* string built by a template literal is the sequence of its parts.        *)
(***************************************************************************)
EXTENDS Integers, Sequences, FiniteSets, TLC

\* ------------------------------------------------------------------ bounds
\* Longest result the line-item query returns.
MaxItems == 2
\* Most entries of one commit response that are failed or missing.
MaxFaults == 1
\* Most routes registered besides those of the server's own plugins, and
\* longest preHandler array such a route declares.
MaxRoutes == 2
MaxPreHandlers == 2
\* The ceiling of the store on the operations of one transaction (10000 for
\* the org), scaled so that a query result of MaxItems records exceeds it.
OperationCeiling == 2

\* The requests in flight, and the opportunity id the body of each carries:
\* two concurrent requests, for two opportunities.
Requests == {"r1", "r2"}
OpportunityIdOf == [r1 |-> "006A", r2 |-> "006B"]

\* ------------------------------------------------------- JavaScript values
Undefined == <<>>
Some(v) == <<v>>

\* obj[key] of JavaScript: undefined when the object has no such property.
Get(obj, key) == IF key \in DOMAIN obj THEN Some(obj[key]) ELSE Undefined

\* str.includes(part) for a string given as the sequence of its parts.
Includes(str, part) == \E i \in 1..Len(str) : str[i] = part

\* new Error(message), and the error with error.statusCode = code set.
Error(message) == [message |-> message]
WithStatusCode(error, code) == [message |-> error.message, statusCode |-> code]

\* ------------------------------------------------------------ environment
\* The OpportunityLineItem rows of the org.  DiscountOverride__c is null
\* (Undefined) on the rows that carry no override.
OpportunityLineItems ==
  { [Id |-> "oli1", Product2Id |-> "p1", Quantity |-> 2, UnitPrice |-> 100,
     PricebookEntryId |-> "pbe1", DiscountOverride__c |-> Undefined],
    [Id |-> "oli2", Product2Id |-> "p2", Quantity |-> 0, UnitPrice |-> 50,
     PricebookEntryId |-> "pbe2", DiscountOverride__c |-> Undefined],
    [Id |-> "oli3", Product2Id |-> "p3", Quantity |-> 1, UnitPrice |-> 200,
     PricebookEntryId |-> "pbe3", DiscountOverride__c |-> Some(20)] }

\* The values process.env.ENABLE_DISCOUNT_OVERRIDES may have at start-up.
EnvValues == {Undefined, Some("True"), Some("true")}

\* The client context the x-client-context header of request r encodes.
ClientContext(r) ==
  [requestId |-> r, org |-> [id |-> "00D", accessToken |-> <<"token", r>>]]

\* The header values a request may arrive with: none, one that does not
\* decode, and the base64 encoding of its client context.
Base64Encode(v) == [base64 |-> v]
Base64Decode(h) == IF "base64" \in DOMAIN h THEN Some(h.base64) ELSE Undefined
HeaderChoices(r) ==
  { [content_type |-> "application/json"],
    [content_type |-> "application/json",
     x_client_context |-> [raw |-> "garbage"]],
    [content_type |-> "application/json",
     x_client_context |-> Base64Encode(ClientContext(r))] }

\* The JSON values of a body: a string, an object, an array.
Str(s) == [string |-> s]
Obj(o) == [object |-> o]
Arr(a) == [array |-> a]

\* The bodies a request may arrive with: an object with the opportunityId of
\* the request, one that lacks the property, one whose opportunityId is an
\* object, an array of two strings or an array of the one string, and a body
\* that is no object.
BodyChoices(r) ==
  { Obj([opportunityId |-> Str(OpportunityIdOf[r])]),
    Obj([opportunity |-> Str(OpportunityIdOf[r])]),
    Obj([opportunityId |-> Obj([nested |-> 1])]),
    Obj([opportunityId |-> Arr(<<Str("006A"), Str("006B")>>)]),
    Obj([opportunityId |-> Arr(<<Str(OpportunityIdOf[r])>>)]),
    Arr(<<>>) }

VARIABLES
  processEnv,   \* process.env.ENABLE_DISCOUNT_OVERRIDES, read once by config
  server,       \* how many registrations of the start-up sequence are done
  onRouteHooks, \* the onRoute hooks added to the Fastify instance, in order
  registered,   \* the route options handed to Fastify, as they were declared
  routes,       \* the route table: the route options after the onRoute hooks
  heap,         \* the array objects of the preHandler options, by identity
  parseLog,     \* parseLog[r]: the parseRequest calls made for request r
  pc,           \* pc[r]: where request r is
  headers,      \* headers[r]: request.headers
  body,         \* body[r]: request.body
  salesforce,   \* salesforce[r]: request.salesforce (Undefined is null)
  queryResult,  \* queryResult[r]: the records generateQuote got
  unitOfWork,   \* unitOfWork[r]: the unit of work generateQuote built
  quoteRef,     \* quoteRef[r]: the reference of the Quote create
  results,      \* results[r]: what commitUnitOfWork settled with
  calls,        \* calls[r]: the dataApi / unit-of-work calls made, in order
  replies,      \* replies[r]: the HTTP responses sent, in order
  store,        \* the Quote and QuoteLineItem records the org holds
  script        \* one run of bin/invoke.sh: its position and shell variables

vars == <<processEnv, server, onRouteHooks, registered, routes, heap, parseLog, pc,
          headers, body, salesforce, queryResult, unitOfWork, quoteRef,
          results, calls, replies, store, script>>

\* The variables of the start-up, and those of the requests.
startupVars == <<server, onRouteHooks, registered, routes, heap>>
requestVars == <<parseLog, pc, headers, body, salesforce, queryResult,
                 unitOfWork, quoteRef, results, calls, replies, store>>

\* ------------------------------------------------------------------ config
\* A config that takes the variable whatever its letter case.
configAnyCase ==
  [features |-> [enableDiscountOverrides |->
                   (processEnv \in {Some("True"), Some("true")})]]

\* config.features.enableDiscountOverrides is
\* process.env.ENABLE_DISCOUNT_OVERRIDES === 'True'.
config ==
  [features |-> [enableDiscountOverrides |-> (processEnv = Some("True"))]]

\* ------------------------------------------------- the credential preHandler
\* sdk.salesforce.parseRequest(headers, body, log): throws when the
\* x-client-context header is absent or does not decode.
parseRequest(hdrs) ==
  LET h == Get(hdrs, "x_client_context") IN
  IF h = Undefined
    THEN [threw |-> TRUE,
          error |-> Error(<<"Required x-client-context header not found">>)]
  ELSE IF Base64Decode(h[1]) = Undefined
    THEN [threw |-> TRUE,
          error |-> Error(<<"x-client-context header could not be decoded">>)]
  ELSE [threw |-> FALSE, value |-> [context |-> Base64Decode(h[1])[1]]]

\* A preHandler that throws the wrapped error without setting statusCode.
preHandlerNoStatusCode(hdrs) ==
  LET parsedRequest == parseRequest(hdrs) IN
  IF parsedRequest.threw
    THEN [threw |-> TRUE,
          error |-> Error(<<"Failed to initialize Salesforce client">>)]
    ELSE [threw |-> FALSE,
          salesforce |-> Some([context |-> parsedRequest.value.context])]

\* A preHandler that hands every request the client of the request r1, as
\* one that keeps the parsed client in the scope of the plugin would.
preHandlerSharedContext(hdrs) ==
  LET parsedRequest == parseRequest(hdrs) IN
  IF parsedRequest.threw
    THEN [threw |-> TRUE,
          error |-> WithStatusCode(
                      Error(<<"Failed to initialize Salesforce client">>), 401)]
    ELSE [threw |-> FALSE,
          salesforce |-> Some([context |-> ClientContext("r1")])]

\* The preHandler of the plugin: request.salesforce = Object.assign(sdk,
\* parsedRequest), or the wrapped error with statusCode 401 thrown.  The sdk
\* is the object that salesforceSdk.init() returns to this very call, an
\* object of its own on each call.
preHandler(hdrs) ==
  LET parsedRequest == parseRequest(hdrs) IN
  IF parsedRequest.threw
    THEN [threw |-> TRUE,
          error |-> WithStatusCode(
                      Error(<<"Failed to initialize Salesforce client">>), 401)]
    ELSE [threw |-> FALSE,
          salesforce |-> Some([context |-> parsedRequest.value.context])]

\* The preHandler array of a route run for one request, in order, up to the
\* first that throws: the error thrown if any, request.salesforce, and
\* whether each parseRequest call made returned.  A preHandler other than
\* that of the plugin leaves the request as it is.
RECURSIVE RunPreHandlers(_, _, _)
RunPreHandlers(fns, hdrs, acc) ==
  IF fns = <<>> THEN acc
  ELSE IF Head(fns).fn # "preHandler"
    THEN RunPreHandlers(Tail(fns), hdrs, acc)
  ELSE
    LET out == preHandler(hdrs) IN
    IF out.threw
      THEN [threw |-> TRUE, error |-> Some(out.error),
            salesforce |-> acc.salesforce,
            parsed |-> Append(acc.parsed, FALSE)]
      ELSE RunPreHandlers(Tail(fns), hdrs,
             [threw |-> FALSE, error |-> Undefined,
              salesforce |-> out.salesforce,
              parsed |-> Append(acc.parsed, TRUE)])

\* ---------------------------------------------------------- the onRoute hook
\* routeOptions.preHandler is undefined, one function or an array of
\* functions: a function is [fn |-> name], an array is [ref |-> id], the
\* array object heap[id], which every holder of the reference sees change.
\* The preHandler closure the hook of the plugin creates.
SalesforcePreHandler == [fn |-> "preHandler"]

\* The onRoute hook of the plugin on the options of a route, with the array
\* objects h: the credential preHandler becomes the only element of a new
\* array for a route that declares none, is pushed onto the array object of
\* a route that declares an array, and follows the function in a new array
\* for a route that declares a single function.
onRoute(routeOptions, h) ==
  LET declared == routeOptions.preHandler IN
  IF declared = Undefined
    THEN [routeOptions |-> [routeOptions EXCEPT
                              !.preHandler = Some([ref |-> Len(h) + 1])],
          heap |-> Append(h, <<SalesforcePreHandler>>)]
  ELSE IF "ref" \in DOMAIN declared[1]
    THEN [routeOptions |-> routeOptions,
          heap |-> [h EXCEPT ![declared[1].ref] =
                      Append(@, SalesforcePreHandler)]]
  ELSE [routeOptions |-> [routeOptions EXCEPT
                            !.preHandler = Some([ref |-> Len(h) + 1])],
        heap |-> Append(h, <<declared[1], SalesforcePreHandler>>)]

\* Fastify runs the onRoute hooks added so far on the options of a route
\* being registered.
RECURSIVE ApplyHooks(_, _, _)
ApplyHooks(routeOptions, hooks, h) ==
  IF hooks = <<>> THEN [routeOptions |-> routeOptions, heap |-> h]
  ELSE LET out == onRoute(routeOptions, h)
       IN  ApplyHooks(out.routeOptions, Tail(hooks), out.heap)

\* The functions of a preHandler option, with the array objects h.
ListOf(option, h) ==
  IF option = Undefined THEN <<>>
  ELSE IF "ref" \in DOMAIN option[1] THEN h[option[1].ref]
  ELSE <<option[1]>>

\* The preHandler functions Fastify runs for a request to a route.
PreHandlersOf(route) == ListOf(route.preHandler, heap)

\* --------------------------------------------------------- server start-up
\* A start-up that registers the API routes ahead of the Salesforce plugin.
StartupOrderRoutesFirst ==
  <<"swagger", "swaggerUi", "apiRoutes", "salesforcePlugin">>

\* The plugins the server registers, each awaited before the next.
StartupOrder == <<"swagger", "swaggerUi", "salesforcePlugin", "apiRoutes">>

\* The onRoute hooks the source adds in a plugin and the routes a plugin is
\* registered for: the documentation under /docs, the quote route under
\* /api.  The swagger plugin is registered for the OpenAPI document alone.
HooksOf(plugin) ==
  IF plugin = "salesforcePlugin" THEN <<"onRoute">> ELSE <<>>
RoutesOf(plugin) ==
  IF plugin = "swaggerUi"
    THEN <<[path |-> "/docs", preHandler |-> Undefined]>>
  ELSE IF plugin = "apiRoutes"
    THEN <<[path |-> "/api/generatequote", preHandler |-> Undefined]>>
  ELSE <<>>

\* The route table entry of a path.
RouteOf(path) == CHOOSE route \in {routes[i] : i \in 1..Len(routes)} :
                   route.path = path

\* The options a route other than those of the server may be declared with.
Functions == {[fn |-> "authenticate"], [fn |-> "audit"]}
ArrayChoices == UNION {[1..k -> Functions] : k \in 0..MaxPreHandlers}
PreHandlerChoices ==
  {Undefined} \cup {Some(f) : f \in Functions}
RouteOptionChoices ==
  {[path |-> "/other", preHandler |-> p] : p \in PreHandlerChoices}

\* ------------------------------------------------------- the route schema
\* The validator Fastify compiles coerces types (coerceTypes: 'array'): where
\* the schema asks for a string, an array of one element stands for that
\* element.  The value as a string, or undefined when it is none.
CoerceString(v) ==
  IF "string" \in DOMAIN v THEN Some(v)
  ELSE IF "array" \in DOMAIN v /\ Len(v.array) = 1
          /\ "string" \in DOMAIN v.array[1]
    THEN Some(v.array[1])
  ELSE Undefined

\* The keyword of the body schema QuoteGenerationRequest a body fails:
\* type 'object', required ['opportunityId'], opportunityId of type 'string'.
FailedKeyword(payload) ==
  IF "object" \notin DOMAIN payload THEN Some("type")
  ELSE IF "opportunityId" \notin DOMAIN payload.object THEN Some("required")
  ELSE IF CoerceString(payload.object.opportunityId) = Undefined
    THEN Some("opportunityId/type")
  ELSE Undefined

ValidateBody(payload) == FailedKeyword(payload) = Undefined

\* request.body after a validation it passed: the coerced value is written
\* to the body.
CoerceBody(payload) ==
  Obj([payload.object EXCEPT !.opportunityId = CoerceString(@)[1]])

\* The error Fastify raises for a body that fails the schema.
ValidationError(payload) ==
  [message |->
     IF FailedKeyword(payload) = Some("type") THEN <<"body must be object">>
     ELSE IF FailedKeyword(payload) = Some("required")
       THEN <<"body must have required property 'opportunityId'">>
     ELSE <<"body/opportunityId must be string">>,
   statusCode |-> 400, code |-> "FST_ERR_VALIDATION"]

\* const { opportunityId } = request.body, handed on as { opportunityId }.
Destructure(payload) ==
  [opportunityId |-> payload.object.opportunityId.string]

\* The status codes of the route with a response schema of the properties
\* error (boolean) and message (string).
ErrorSchemaStatuses == {401, 500}

\* A string serialised as a boolean: true unless it is empty.
AsBoolean(str) == str # ""

\* The reply Fastify sends for an error thrown ahead of the handler: the
\* error's statusCode (500 without one), with the framework's error object
\* as body, serialised by the response schema of that status when the route
\* has one.
StatusText(code) ==
  IF code = 401 THEN "Unauthorized"
  ELSE IF code = 400 THEN "Bad Request"
  ELSE IF code = 404 THEN "Not Found"
  ELSE IF code = 503 THEN "Service Unavailable"
  ELSE "Internal Server Error"
StatusCodeOr500(error) ==
  IF "statusCode" \in DOMAIN error /\ error.statusCode # 0
    THEN error.statusCode ELSE 500
DefaultErrorBody(error) ==
  IF "code" \in DOMAIN error
    THEN [statusCode |-> StatusCodeOr500(error), code |-> error.code,
          error |-> StatusText(StatusCodeOr500(error)),
          message |-> error.message]
    ELSE [statusCode |-> StatusCodeOr500(error),
          error |-> StatusText(StatusCodeOr500(error)),
          message |-> error.message]
ErrorHandlerReply(error) ==
  [status |-> StatusCodeOr500(error),
   body |-> IF StatusCodeOr500(error) \in ErrorSchemaStatuses
              THEN [error |-> AsBoolean(DefaultErrorBody(error).error),
                    message |-> DefaultErrorBody(error).message]
              ELSE DefaultErrorBody(error)]

\* ------------------------------------------------------------ generateQuote
\* Rates are kept in hundredths: 10 stands for the 0.10 of the source.
discounts == [US |-> 10, EU |-> 15, APAC |-> 12]

getDiscountForRegion(region) ==
  IF region \in DOMAIN discounts /\ discounts[region] # 0
    THEN discounts[region] ELSE 0

\* JavaScript numbers of the price arithmetic: a finite value in
\* hundredths of the unit of UnitPrice (exact, without the rounding of
\* floating point), or NaN.
Num(h) == [hundredths |-> h]
NaN == [nan |-> TRUE]

\* The fields of the SOQL query and the query string.
QueryFields ==
  LET fields == <<"Id", "Product2Id", "Quantity", "UnitPrice", "PricebookEntryId">>
  IN IF config.features.enableDiscountOverrides
       THEN Append(fields, "DiscountOverride__c") ELSE fields

Soql(request) ==
  <<"SELECT ", QueryFields,
    " FROM OpportunityLineItem WHERE OpportunityId = '",
    request.opportunityId, "'">>

\* A unit of work kept by the module and handed to every request.
newUnitOfWorkShared(id) == [id |-> "shared", operations |-> <<>>]

\* org.dataApi.newUnitOfWork(): an empty unit of work (id names the object).
newUnitOfWork(id) == [id |-> id, operations |-> <<>>]

\* unitOfWork.registerCreate(record): appends the create and returns its
\* reference, fresh within the unit of work.
registerCreate(uow, record) ==
  LET ref == [unitOfWork |-> uow.id, referenceId |-> Len(uow.operations) + 1] IN
  [unitOfWork |-> [uow EXCEPT !.operations =
                     Append(@, [ref |-> ref, method |-> "create",
                                record |-> record])],
   ref |-> ref]

\* ref.toApiString(): the placeholder the store replaces by the record id.
toApiString(ref) == <<"@{", ref, ".id}">>

\* The Quote record registered first.
QuoteRecord(request) ==
  [type |-> "Quote",
   fields |-> [Name |-> "New Quote", OpportunityId |-> request.opportunityId]]

\* A callback that takes the PricebookEntryId of the line item from the
\* Product2Id of the record.
QuoteLineItemRecordProductId(record, ref, discountRate) ==
  [type |-> "QuoteLineItem",
   fields |-> [QuoteId |-> toApiString(ref),
               PricebookEntryId |-> record.fields.Product2Id,
               Quantity |-> record.fields.Quantity,
               UnitPrice |-> IF record.fields.Quantity = 0 THEN NaN
                             ELSE Num(record.fields.UnitPrice
                                      * (100 - discountRate))]]

\* The body of the forEach callback: the QuoteLineItem of one queried record.
\* config.enableDiscountOverrides is read on config itself, which has no such
\* property.
QuoteLineItemRecord(record, ref, discountRate) ==
  LET quantity == record.fields.Quantity
      unitPrice == record.fields.UnitPrice
      override == IF "DiscountOverride__c" \in DOMAIN record.fields
                    THEN record.fields.DiscountOverride__c ELSE Undefined
      enabled == Get(config, "enableDiscountOverrides")
      effectiveDiscountRate ==
        IF enabled # Undefined /\ enabled[1] = TRUE
           /\ override # Undefined /\ override[1] # 0
          THEN override[1] ELSE discountRate
      \* (quantity * unitPrice) * (1 - rate), in hundredths
      discountedPrice == (quantity * unitPrice) * (100 - effectiveDiscountRate)
  IN [type |-> "QuoteLineItem",
      fields |-> [QuoteId |-> toApiString(ref),
                  PricebookEntryId |-> record.fields.PricebookEntryId,
                  Quantity |-> quantity,
                  UnitPrice |-> IF quantity = 0 THEN NaN
                                ELSE Num(discountedPrice \div quantity)]]

\* A loop that walks the query result from its last record to its first.
RECURSIVE forEachRecordReversed(_, _, _, _)
forEachRecordReversed(uow, records, ref, discountRate) ==
  IF records = <<>> THEN uow
  ELSE forEachRecordReversed(
         registerCreate(uow,
           QuoteLineItemRecord(records[Len(records)], ref,
                               discountRate)).unitOfWork,
         SubSeq(records, 1, Len(records) - 1), ref, discountRate)

\* queryResult.records.forEach(...): one registerCreate per record, in order.
RECURSIVE forEachRecord(_, _, _, _)
forEachRecord(uow, records, ref, discountRate) ==
  IF records = <<>> THEN uow
  ELSE forEachRecord(
         registerCreate(uow,
           QuoteLineItemRecord(Head(records), ref, discountRate)).unitOfWork,
         Tail(records), ref, discountRate)

\* The registerCreate calls a unit of work was built with, for the call log.
RegisterCalls(uow) ==
  [i \in 1..Len(uow.operations) |->
     [api |-> "registerCreate", unitOfWork |-> uow.id,
      ref |-> uow.operations[i].ref, record |-> uow.operations[i].record]]

\* The outer catch of generateQuote: an error that carries a statusCode is
\* rethrown as it is, any other is wrapped as a 500.
OuterCatch(error) ==
  IF "statusCode" \in DOMAIN error /\ error.statusCode # 0
    THEN error
    ELSE WithStatusCode(
           Error(<<"An unexpected error occurred: ">> \o error.message), 500)

\* generateQuote up to its first await: the query call it issues.
QueryCall(request, client) ==
  [api |-> "query", context |-> client.context, soql |-> Soql(request)]

\* generateQuote without the check for an empty query result.
AfterQueryNoEmptyCheck(request, client, settled, id) ==
  IF settled.threw
    THEN [threw |-> TRUE, error |-> OuterCatch(settled.error), calls |-> <<>>]
  ELSE
    LET quote == registerCreate(newUnitOfWork(id), QuoteRecord(request))
        uow == forEachRecord(quote.unitOfWork, settled.value.records,
                             quote.ref, getDiscountForRegion("US"))
    IN [threw |-> FALSE, unitOfWork |-> uow, quoteRef |-> quote.ref,
        calls |-> <<[api |-> "newUnitOfWork", unitOfWork |-> id]>>
                  \o RegisterCalls(uow)
                  \o <<[api |-> "commitUnitOfWork", unitOfWork |-> uow,
                        context |-> client.context]>>]

\* generateQuote committing right after the Quote is registered, and
\* registering the line items on the unit of work afterwards.
AfterQueryCommitFirst(request, client, settled, id) ==
  IF settled.threw
    THEN [threw |-> TRUE, error |-> OuterCatch(settled.error), calls |-> <<>>]
  ELSE IF Len(settled.value.records) = 0
    THEN [threw |-> TRUE,
          error |-> OuterCatch(WithStatusCode(
            Error(<<"No OpportunityLineItems found for Opportunity ID: ",
                    request.opportunityId>>), 404)),
          calls |-> <<>>]
  ELSE
    LET quote == registerCreate(newUnitOfWork(id), QuoteRecord(request))
        uow == forEachRecord(quote.unitOfWork, settled.value.records,
                             quote.ref, getDiscountForRegion("US"))
    IN [threw |-> FALSE, unitOfWork |-> uow, quoteRef |-> quote.ref,
        calls |-> <<[api |-> "newUnitOfWork", unitOfWork |-> id],
                    RegisterCalls(uow)[1],
                    [api |-> "commitUnitOfWork",
                     unitOfWork |-> quote.unitOfWork,
                     context |-> client.context]>>
                  \o Tail(RegisterCalls(uow))]

\* generateQuote submitting the unit of work a second time.
AfterQueryCommitTwice(request, client, settled, id) ==
  IF settled.threw
    THEN [threw |-> TRUE, error |-> OuterCatch(settled.error), calls |-> <<>>]
  ELSE IF Len(settled.value.records) = 0
    THEN [threw |-> TRUE,
          error |-> OuterCatch(WithStatusCode(
            Error(<<"No OpportunityLineItems found for Opportunity ID: ",
                    request.opportunityId>>), 404)),
          calls |-> <<>>]
  ELSE
    LET quote == registerCreate(newUnitOfWork(id), QuoteRecord(request))
        uow == forEachRecord(quote.unitOfWork, settled.value.records,
                             quote.ref, getDiscountForRegion("US"))
        commit == [api |-> "commitUnitOfWork", unitOfWork |-> uow,
                   context |-> client.context]
    IN [threw |-> FALSE, unitOfWork |-> uow, quoteRef |-> quote.ref,
        calls |-> <<[api |-> "newUnitOfWork", unitOfWork |-> id]>>
                  \o RegisterCalls(uow) \o <<commit, commit>>]

\* generateQuote from the settlement of the query to its second await: the
\* error it throws, or the unit of work it builds and the calls it makes, the
\* last of which is the commit.  id names the unit-of-work object created.
AfterQuery(request, client, settled, id) ==
  IF settled.threw
    THEN [threw |-> TRUE, error |-> OuterCatch(settled.error), calls |-> <<>>]
  ELSE IF Len(settled.value.records) = 0
    THEN [threw |-> TRUE,
          error |-> OuterCatch(WithStatusCode(
            Error(<<"No OpportunityLineItems found for Opportunity ID: ",
                    request.opportunityId>>), 404)),
          calls |-> <<>>]
  ELSE
    LET discountRate == getDiscountForRegion("US")
        quote == registerCreate(newUnitOfWork(id), QuoteRecord(request))
        uow == forEachRecord(quote.unitOfWork, settled.value.records,
                             quote.ref, discountRate)
    IN [threw |-> FALSE, unitOfWork |-> uow, quoteRef |-> quote.ref,
        calls |-> <<[api |-> "newUnitOfWork", unitOfWork |-> id]>>
                  \o RegisterCalls(uow)
                  \o <<[api |-> "commitUnitOfWork", unitOfWork |-> uow,
                        context |-> client.context]>>]

\* generateQuote from the settlement of the commit to its end: the value it
\* returns or the error it throws.  Both the rejection of the commit and the
\* missing Quote result go through the inner catch.
AfterCommit(settled, ref) ==
  LET quoteResult == IF settled.threw THEN Undefined
                     ELSE Get(settled.value, ref)
      commitError ==
        IF settled.threw THEN settled.error
        ELSE Error(<<"Quote creation result not found in response">>)
  IN IF settled.threw \/ quoteResult = Undefined
       THEN [threw |-> TRUE,
             error |-> OuterCatch(WithStatusCode(
               Error(<<"Failed to create quote: ">> \o commitError.message),
               400))]
       ELSE [threw |-> FALSE,
             value |-> [quoteId |-> Get(quoteResult[1], "id")]]

\* ---------------------------------------------------------- the route handler
\* JSON serialisation of a returned object: undefined properties are dropped.
Serialize(obj) ==
  [k \in {key \in DOMAIN obj : obj[key] # Undefined} |-> obj[k][1]]

\* The reply of the handler for what generateQuote settled with.
HandlerReply(outcome) ==
  IF outcome.threw
    THEN [status |-> StatusCodeOr500(outcome.error),
          body |-> [error |-> TRUE, message |-> outcome.error.message]]
    ELSE [status |-> 200, body |-> Serialize(outcome.value)]

\* The reply of the handler when request.salesforce is not set.
NotInitializedReply ==
  [status |-> 401,
   body |-> [error |-> TRUE,
             message |-> <<"Salesforce client not initialized">>]]

\* ------------------------------------------------- the backing store (org)
Range(f) == {f[i] : i \in DOMAIN f}

\* The sequences of distinct elements of S of length at most n.
DistinctSeqs(S, n) ==
  UNION {{q \in [1..k -> S] : \A i, j \in 1..k : q[i] = q[j] => i = j} :
         k \in 0..n}

\* A row as the query returns it: the selected fields only.
QueriedRecord(row, fields) ==
  [type |-> "OpportunityLineItem",
   fields |-> [f \in Range(fields) |-> row[f]]]

\* What org.dataApi.query(soql) may settle with: any ordered result of at
\* most MaxItems rows, or a rejection.  The column DiscountOverride__c is
\* refused when the acting user has no access to it.  A rejection is any
\* JavaScript error object: one without a statusCode property, or one that
\* carries the HTTP status of the response of the org.
NoSuchColumn ==
  "INVALID_FIELD: No such column 'DiscountOverride__c' on entity 'OpportunityLineItem'"
HttpError ==
  WithStatusCode(Error(<<"Service Unavailable">>), 503)
QueryOutcomes(call) ==
  { [threw |-> FALSE,
     value |-> [records |-> [i \in 1..Len(rows) |->
                               QueriedRecord(rows[i], call.soql[2])]]] :
    rows \in DistinctSeqs(OpportunityLineItems, MaxItems) }
  \cup { [threw |-> TRUE, error |-> Error(<<"ECONNRESET: socket hang up">>)] }
  \cup { [threw |-> TRUE, error |-> HttpError] }
  \cup { [threw |-> TRUE, error |-> Error(<<NoSuchColumn>>)] :
         x \in IF "DiscountOverride__c" \in Range(call.soql[2]) THEN {1} ELSE {} }

\* The id the store assigns to the record created for a reference.
StoreId(ref) == <<"id", ref.unitOfWork, ref.referenceId>>

\* The store's substitution of a reference placeholder by the record id.
ResolveRecord(record) ==
  IF "QuoteId" \in DOMAIN record.fields
     /\ Len(record.fields.QuoteId) = 3 /\ record.fields.QuoteId[1] = "@{"
    THEN [record EXCEPT !.fields.QuoteId = StoreId(@[2])]
    ELSE record

\* The records the store holds for the operations `applied` of a unit of
\* work.
Persisted(uow, applied) ==
  { [id |-> StoreId(uow.operations[i].ref),
     record |-> ResolveRecord(uow.operations[i].record)] :
    i \in applied }

\* The reason the store gives for a rejected operation, and the errors a
\* commit may be rejected with: one reported by the store, one of the
\* transport.
StoreReason ==
  "INSUFFICIENT_ACCESS_OR_READONLY: insufficient access rights on field"
StoreError == [name |-> "SalesforceError", message |-> <<StoreReason>>]
TransportError ==
  [name |-> "FetchError", message |-> <<"network timeout during commit">>]

\* The result map of a commit in which the operations `failed` are reported
\* as failed and the operations `missing` have no entry.
ResultMap(uow, failed, missing) ==
  [ref \in {uow.operations[i].ref : i \in (1..Len(uow.operations)) \ missing}
     |-> IF \E i \in failed : uow.operations[i].ref = ref
           THEN [success |-> FALSE, errors |-> <<StoreReason>>]
           ELSE [success |-> TRUE, id |-> StoreId(ref)]]

\* What org.dataApi.commitUnitOfWork(uow) may settle with, each with the
\* operations the store applied.  The README has the unit of work committed
\* as one transaction, rolled back when an operation fails; the SDK guide
\* has the caller deal with a partial success, the operations reported as
\* succeeded being stored next to failed ones.  Both are outcomes here: with
\* a failed operation the store holds nothing of the unit of work, or the
\* operations that succeeded when the Quote they refer to is among them.  A
\* timeout, and a response that lacks entries, leave all or nothing applied.
CommitOutcomes(uow) ==
  LET n == Len(uow.operations) IN
  { [settled |-> [threw |-> FALSE, value |-> ResultMap(uow, {}, {})],
     applied |-> 1..n] }
  \cup { [settled |-> [threw |-> TRUE, error |-> StoreError],
          applied |-> {}] }
  \cup { [settled |-> [threw |-> TRUE, error |-> TransportError],
          applied |-> a] : a \in {{}, 1..n} }
  \cup UNION { { [settled |-> [threw |-> FALSE,
                               value |-> ResultMap(uow, failed, faulty \ failed)],
                  applied |-> a] :
                 a \in IF failed = {} THEN {{}, 1..n}
                       ELSE IF 1 \in failed THEN {{}}
                       ELSE {{}, (1..n) \ failed} } :
               <<faulty, failed>> \in
                 { <<x, y>> \in (SUBSET (1..n)) \X (SUBSET (1..n)) :
                     /\ x # {} /\ y \subseteq x
                     /\ Cardinality(x) <= MaxFaults } }

\* ------------------------------------------------------- bin/invoke.sh
\* The command lines the script may be started with: $1 the org alias, $2 the
\* payload, $3 the optional session permission set.
ArgvChoices ==
  { <<>>,
    <<"my-org">>,
    <<"", "{\"opportunityId\": \"006a\"}">>,
    <<"my-org", "{\"opportunityId\": \"006a\"}">>,
    <<"my-org", "{\"opportunityId\": \"006a\"}", "">>,
    <<"my-org", "{\"opportunityId\": \"006a\"}", "GenerateQuoteAuthorization">> }

\* "$n": a positional parameter that was not given expands to the empty string.
Positional(argv, n) == IF n <= Len(argv) THEN argv[n] ELSE ""

\* The org details the script extracts from the org lookup result.
OrgDetails == {"accessToken", "apiVersion", "id", "instanceUrl", "username"}

\* The result of `sf org display --json` for an authenticated org.
OrgDisplayResult ==
  [accessToken |-> "00Dxx!AQ", apiVersion |-> "62.0", id |-> "00Dxx",
   instanceUrl |-> "https://my-org.my.salesforce.com",
   username |-> "user@example.com"]

\* What `sf org display -o alias --json 2>/dev/null` may end with: a failure,
\* the details of the org, the details but one, or one detail empty.
OrgDisplayOutcomes ==
  { [status |-> 1,
     stdout |-> Some([status |-> 1, name |-> "NamedOrgNotFoundError"])],
    [status |-> 0,
     stdout |-> Some([status |-> 0, result |-> OrgDisplayResult])] }
  \cup { [status |-> 0,
          stdout |-> Some([status |-> 0,
                           result |-> [g \in OrgDetails \ {f} |->
                                         OrgDisplayResult[g]]])] :
         f \in OrgDetails }
  \cup { [status |-> 0,
          stdout |-> Some([status |-> 0,
                           result |-> [OrgDisplayResult EXCEPT ![f] = ""]])] :
         f \in OrgDetails }

\* `echo "$doc" | jq -r '.result.<field>'`: the raw string of the field, the
\* text null when the field (or .result) is absent, nothing when there is
\* no document to read.
JqResultField(doc, field) ==
  IF doc = Undefined THEN ""
  ELSE IF "result" \notin DOMAIN doc[1] THEN "null"
  ELSE IF field \notin DOMAIN doc[1].result THEN "null"
  ELSE doc[1].result[field]

\* `jq -r '.result.records[0].Id'` on the output of `sf data query --json`.
JqFirstRecordId(doc) ==
  IF doc = Undefined THEN ""
  ELSE IF "result" \notin DOMAIN doc[1] THEN "null"
  ELSE IF doc[1].result.records = <<>> THEN "null"
  ELSE doc[1].result.records[1].Id

\* `jq -r '.result.id'` on the output of `sf data create record --json`.
JqResultId(doc) ==
  IF doc = Undefined THEN ""
  ELSE IF "result" \notin DOMAIN doc[1] THEN "null"
  ELSE doc[1].result.id

\* What an `sf data query --json` may print: one record, no record, an error.
DataQueryOutcomes(id) ==
  { Some([status |-> 0, result |-> [records |-> <<[Id |-> id]>>]]),
    Some([status |-> 0, result |-> [records |-> <<>>]]),
    Some([status |-> 1, name |-> "QueryError"]) }

\* What `sf data create record --json` may print: the id of the record it
\* created, or an error.
DataCreateOutcomes ==
  { Some([status |-> 0, result |-> [id |-> "5Pa1", success |-> TRUE]]),
    Some([status |-> 1, name |-> "CreateError"]) }

\* What curl may leave in RESPONSE: the quote, an error response of the
\* server, or nothing when the connection failed.
CurlOutcomes ==
  { [exit |-> 0, response |-> "{\"quoteId\": \"0Q0a\"}"],
    [exit |-> 0, response |-> "{\"error\": true, \"message\": \"...\"}"],
    [exit |-> 7, response |-> ""] }

\* DELETE_STATUS: the .status of `sf data delete record --json`.
DeleteStatuses == {"0", "1"}

\* [ -z "$1" ] || [ -z "$2" ]
MissingArguments(argv) == Positional(argv, 1) = "" \/ Positional(argv, 2) = ""

\* The org details as the script holds them after the five jq extractions.
ExtractDetails(doc) == [f \in OrgDetails |-> JqResultField(doc, f)]

\* [ -z "$ACCESS_TOKEN" ] || ... || [ -z "$USERNAME" ]
MissingDetails(details) == \E f \in OrgDetails : details[f] = ""

\* [ -z "$ID" ] || [ "$ID" == "null" ]
NoId(id) == id = "" \/ id = "null"

\* What uuidgen may print.
Uuids == {"123e4567-e89b-12d3-a456-426614174000",
          "9b2f1c1e-7d43-4c55-8a0e-0f6d2f3b1a77"}

\* CLIENT_CONTEXT_JSON, the document sent base64-encoded as x-client-context.
ClientContextJson(details, uuid) ==
  [accessToken |-> details.accessToken, apiVersion |-> details.apiVersion,
   requestId |-> <<"req-", uuid>>, namespace |-> "demo",
   orgId |-> details.id, orgDomainUrl |-> details.instanceUrl,
   userContext |-> [userId |-> "0055g00000EXAMPLE",
                    username |-> details.username]]

\* Where the script goes after the curl command, if the script stopped when
\* curl fails.
AfterRequestStopOnFailure(permissionSet, outcome) ==
  IF outcome.exit # 0 THEN "exited"
  ELSE IF permissionSet # "" THEN "deactivate" ELSE "exited"

\* Where the script goes after the curl command: its exit status is not
\* looked at, the response is printed, and the deactivation block is entered
\* when a permission set was given.
AfterRequest(permissionSet, outcome) ==
  IF permissionSet # "" THEN "deactivate" ELSE "exited"

\* The script before it is started.
NotInvoked ==
  [pc |-> "notInvoked", argv |-> <<>>, orgInfo |-> Undefined,
   details |-> Undefined, authSessionId |-> "", permissionSetId |-> "",
   activationId |-> "", commands |-> <<>>, response |-> Undefined,
   deleteStatus |-> "", exit |-> Undefined]

\* ------------------------------------------------------------------ actions
Init ==
  /\ processEnv \in EnvValues
  /\ server = 0
  /\ onRouteHooks = <<>>
  /\ registered = <<>>
  /\ routes = <<>>
  /\ heap = <<>>
  /\ parseLog = [r \in Requests |-> <<>>]
  /\ pc = [r \in Requests |-> "idle"]
  /\ headers = [r \in Requests |-> Undefined]
  /\ body = [r \in Requests |-> Undefined]
  /\ salesforce = [r \in Requests |-> Undefined]
  /\ queryResult = [r \in Requests |-> Undefined]
  /\ unitOfWork = [r \in Requests |-> Undefined]
  /\ quoteRef = [r \in Requests |-> Undefined]
  /\ results = [r \in Requests |-> Undefined]
  /\ calls = [r \in Requests |-> <<>>]
  /\ replies = [r \in Requests |-> <<>>]
  /\ store = {}
  /\ script = NotInvoked

\* Fastify registers a route: the onRoute hooks added so far run on its
\* options, and the result enters the route table.  h holds the array objects
\* at the time of the declaration.
AddRoute(declared, h) ==
  LET out == ApplyHooks(declared, onRouteHooks, h) IN
  /\ registered' = Append(registered,
       [options |-> declared, hooks |-> onRouteHooks,
        list |-> ListOf(declared.preHandler, h)])
  /\ routes' = Append(routes, out.routeOptions)
  /\ heap' = out.heap

\* The server registers the next plugin of its start-up sequence: its hooks
\* are added and its routes registered.
Register ==
  /\ server < Len(StartupOrder)
  /\ onRouteHooks' = onRouteHooks \o HooksOf(StartupOrder[server + 1])
  /\ IF RoutesOf(StartupOrder[server + 1]) = <<>>
       THEN UNCHANGED <<registered, routes, heap>>
       ELSE AddRoute(RoutesOf(StartupOrder[server + 1])[1], heap)
  /\ server' = server + 1
  /\ UNCHANGED <<script, processEnv, requestVars>>

\* A POST /api/generatequote request arrives at the listening server.
Arrive(r) ==
  /\ server = Len(StartupOrder)
  /\ pc[r] = "idle"
  /\ \E h \in HeaderChoices(r) : headers' = [headers EXCEPT ![r] = h]
  /\ \E b \in BodyChoices(r) : body' = [body EXCEPT ![r] = b]
  /\ pc' = [pc EXCEPT ![r] = "validation"]
  /\ UNCHANGED <<script, processEnv, startupVars, parseLog, salesforce, queryResult,
                 unitOfWork, quoteRef, results, calls, replies, store>>

\* Fastify validates the body against the schema of the route; a body that
\* fails is answered with the validation error and no preHandler runs.
Validation(r) ==
  /\ pc[r] = "validation"
  /\ IF ValidateBody(body[r])
       THEN /\ body' = [body EXCEPT ![r] = CoerceBody(@)]
            /\ pc' = [pc EXCEPT ![r] = "preHandler"]
            /\ UNCHANGED replies
       ELSE /\ replies' = [replies EXCEPT ![r] =
                             Append(@, ErrorHandlerReply(ValidationError(body[r])))]
            /\ pc' = [pc EXCEPT ![r] = "done"]
            /\ UNCHANGED body
  /\ UNCHANGED <<script, processEnv, startupVars, parseLog, headers, salesforce,
                 queryResult, unitOfWork, quoteRef, results, calls, store>>

\* What the preHandlers of the route come to for the headers of the request.
PreHandlerOutcome(r) ==
  RunPreHandlers(PreHandlersOf(RouteOf("/api/generatequote")), headers[r],
                 [threw |-> FALSE, error |-> Undefined,
                  salesforce |-> salesforce[r], parsed |-> <<>>])

\* The preHandlers of the route run.  The preHandler is an async function:
\* when it throws, its promise is rejected and Fastify has yet to reply.
PreHandler(r) ==
  /\ pc[r] = "preHandler"
  /\ LET out == PreHandlerOutcome(r)
     IN /\ parseLog' = [parseLog EXCEPT ![r] = @ \o out.parsed]
        /\ salesforce' = [salesforce EXCEPT ![r] = out.salesforce]
        /\ pc' = [pc EXCEPT ![r] = IF out.threw THEN "hookRejected"
                                                ELSE "handler"]
  /\ UNCHANGED <<script, processEnv, startupVars, headers, body, queryResult,
                 unitOfWork, quoteRef, results, calls, replies, store>>

\* Fastify replies with the error the preHandler threw; the route handler is
\* not run.
HookErrorReply(r) ==
  /\ pc[r] = "hookRejected"
  /\ replies' = [replies EXCEPT ![r] =
                   Append(@, ErrorHandlerReply(PreHandlerOutcome(r).error[1]))]
  /\ pc' = [pc EXCEPT ![r] = "done"]
  /\ UNCHANGED <<script, processEnv, startupVars, parseLog, headers, body, salesforce,
                 queryResult, unitOfWork, quoteRef, results, calls, store>>

\* The route handler starts: without a client it replies 401, otherwise it
\* calls generateQuote, which issues the query and awaits it.
Handler(r) ==
  /\ pc[r] = "handler"
  /\ IF salesforce[r] = Undefined
       THEN /\ replies' = [replies EXCEPT ![r] = Append(@, NotInitializedReply)]
            /\ pc' = [pc EXCEPT ![r] = "done"]
            /\ UNCHANGED calls
       ELSE /\ calls' = [calls EXCEPT ![r] =
                           Append(@, QueryCall(Destructure(body[r]),
                                               salesforce[r][1]))]
            /\ pc' = [pc EXCEPT ![r] = "query"]
            /\ UNCHANGED replies
  /\ UNCHANGED <<script, processEnv, startupVars, parseLog, headers, body, salesforce,
                 queryResult, unitOfWork, quoteRef, results, store>>

\* The query settles and generateQuote runs on to the commit call, or it
\* throws: its promise is rejected and the handler, which awaits it, has yet
\* to resume.
QuerySettles(r) ==
  /\ pc[r] = "query"
  /\ \E settled \in QueryOutcomes(calls[r][Len(calls[r])]) :
       LET out == AfterQuery(Destructure(body[r]), salesforce[r][1],
                             settled, r) IN
       /\ queryResult' = [queryResult EXCEPT ![r] = Some(settled)]
       /\ calls' = [calls EXCEPT ![r] = @ \o out.calls]
       /\ IF out.threw
            THEN /\ pc' = [pc EXCEPT ![r] = "rejected"]
                 /\ UNCHANGED <<unitOfWork, quoteRef>>
            ELSE /\ unitOfWork' = [unitOfWork EXCEPT ![r] = Some(out.unitOfWork)]
                 /\ quoteRef' = [quoteRef EXCEPT ![r] = Some(out.quoteRef)]
                 /\ pc' = [pc EXCEPT ![r] = "commit"]
  /\ UNCHANGED <<script, processEnv, startupVars, parseLog, headers, body, salesforce,
                 results, replies, store>>

\* The unit of work handed to the last commit call of a request.
Committing(r) ==
  LET commits == {i \in 1..Len(calls[r]) : calls[r][i].api = "commitUnitOfWork"}
  IN calls[r][CHOOSE j \in commits : \A k \in commits : k <= j].unitOfWork

\* The records of the store that stem from the unit of work.
StoredOf(uow) ==
  {x \in store : \E i \in 1..Len(uow.operations) :
                   x.id = StoreId(uow.operations[i].ref)}

\* The store executes the commit while generateQuote awaits it.
StoreExecutes(r) ==
  /\ pc[r] = "commit"
  /\ \E outcome \in CommitOutcomes(Committing(r)) :
       store' = store \cup Persisted(Committing(r), outcome.applied)
  /\ pc' = [pc EXCEPT ![r] = "executed"]
  /\ UNCHANGED <<script, processEnv, startupVars, parseLog, headers, body, salesforce,
                 queryResult, unitOfWork, quoteRef, results, calls, replies>>

\* The commit call settles with the response of the store for what it
\* executed; generateQuote reads the result of the Quote and returns, or it
\* throws.  The handler has yet to resume.
CommitSettles(r) ==
  /\ pc[r] = "executed"
  /\ \E outcome \in CommitOutcomes(Committing(r)) :
       /\ Persisted(Committing(r), outcome.applied) = StoredOf(Committing(r))
       /\ results' = [results EXCEPT ![r] = Some(outcome.settled)]
       /\ pc' = [pc EXCEPT ![r] =
                   IF AfterCommit(outcome.settled, quoteRef[r][1]).threw
                     THEN "rejected" ELSE "resolved"]
  /\ UNCHANGED <<script, processEnv, startupVars, parseLog, headers, body, salesforce,
                 queryResult, unitOfWork, quoteRef, calls, replies, store>>

\* What the call of generateQuote of the request settled with.
GenerateQuoteOutcome(r) ==
  IF results[r] # Undefined
    THEN AfterCommit(results[r][1], quoteRef[r][1])
    ELSE LET out == AfterQuery(Destructure(body[r]), salesforce[r][1],
                               queryResult[r][1], r)
         IN  [threw |-> TRUE, error |-> out.error]

\* The handler resumes in its catch block and sends the error reply.
HandlerCatches(r) ==
  /\ pc[r] = "rejected"
  /\ replies' = [replies EXCEPT ![r] =
                   Append(@, HandlerReply(GenerateQuoteOutcome(r)))]
  /\ pc' = [pc EXCEPT ![r] = "done"]
  /\ UNCHANGED <<script, processEnv, startupVars, parseLog, headers, body, salesforce,
                 queryResult, unitOfWork, quoteRef, results, calls, store>>

\* The handler resumes with the result of generateQuote and returns it.
HandlerReturns(r) ==
  /\ pc[r] = "resolved"
  /\ pc' = [pc EXCEPT ![r] = "returned"]
  /\ UNCHANGED <<script, processEnv, startupVars, parseLog, headers, body, salesforce,
                 queryResult, unitOfWork, quoteRef, results, calls, replies,
                 store>>

\* Fastify sends the value the handler returned as the 200 response.
Send(r) ==
  /\ pc[r] = "returned"
  /\ replies' = [replies EXCEPT ![r] =
                   Append(@, HandlerReply(GenerateQuoteOutcome(r)))]
  /\ pc' = [pc EXCEPT ![r] = "done"]
  /\ UNCHANGED <<script, processEnv, startupVars, parseLog, headers, body, salesforce,
                 queryResult, unitOfWork, quoteRef, results, calls, store>>

Next ==
  \/ Register
  \/ \E r \in Requests :
       \/ Arrive(r)
       \/ Validation(r)
       \/ PreHandler(r)
       \/ HookErrorReply(r)
       \/ Handler(r)
       \/ QuerySettles(r)
       \/ StoreExecutes(r)
       \/ CommitSettles(r)
       \/ HandlerCatches(r)
       \/ HandlerReturns(r)
       \/ Send(r)

Spec == Init /\ [][Next]_vars

\* ------------------------------------------------ registration of any route
\* The routes registered besides those of the server.
OtherRoutes == {i \in 1..Len(routes) : routes[i].path = "/other"}

\* The array objects the routes registered so far were declared with.
DeclaredArrays ==
  {registered[i].options.preHandler[1].ref :
     i \in {k \in 1..Len(registered) :
              /\ registered[k].options.preHandler # Undefined
              /\ "ref" \in DOMAIN registered[k].options.preHandler[1]}}

\* The identities an array object may have: one per route at most.
ArrayIds == 1..(Len(StartupOrder) + MaxRoutes)

\* A route other than those of the server is registered, with no
\* preHandler or with one function.
Route(options) ==
  /\ Cardinality(OtherRoutes) < MaxRoutes
  /\ AddRoute(options, heap)
  /\ UNCHANGED <<script, processEnv, server, onRouteHooks, requestVars>>

\* A route is registered with a new array of preHandlers.
RouteWithArray(list) ==
  /\ Cardinality(OtherRoutes) < MaxRoutes
  /\ AddRoute([path |-> "/other", preHandler |-> Some([ref |-> Len(heap) + 1])],
              Append(heap, list))
  /\ UNCHANGED <<script, processEnv, server, onRouteHooks, requestVars>>

\* A route is registered with the array object an earlier route was
\* declared with.
RouteWithSharedArray(id) ==
  /\ Cardinality(OtherRoutes) < MaxRoutes
  /\ id \in DeclaredArrays
  /\ AddRoute([path |-> "/other", preHandler |-> Some([ref |-> id])], heap)
  /\ UNCHANGED <<script, processEnv, server, onRouteHooks, requestVars>>

NextRoutes ==
  \/ Register
  \/ \E options \in RouteOptionChoices : Route(options)
  \/ \E list \in ArrayChoices : RouteWithArray(list)
  \/ \E id \in ArrayIds : RouteWithSharedArray(id)

SpecRoutes == Init /\ [][NextRoutes]_vars

\* ------------------------------------------------- one run of bin/invoke.sh
\* The script leaves with an exit status.
Exit(s, code) == [s EXCEPT !.pc = "exited", !.exit = Some(code)]

\* The script runs a command that acts on the org or on the server.
Run(s, command) == [s EXCEPT !.commands = Append(@, command)]

\* $3, kept in SESSION_PERMISSION_SET.
SessionPermissionSet == Positional(script.argv, 3)

\* The script is started with a command line.
Invoke(argv) ==
  /\ script.pc = "notInvoked"
  /\ script' = [script EXCEPT !.pc = "arguments", !.argv = argv]
  /\ UNCHANGED <<processEnv, startupVars, requestVars>>

\* The check of the two mandatory arguments.
CheckArguments ==
  /\ script.pc = "arguments"
  /\ script' = IF MissingArguments(script.argv)
                 THEN Exit(script, 1)
                 ELSE [script EXCEPT !.pc = "orgDisplay"]
  /\ UNCHANGED <<processEnv, startupVars, requestVars>>

\* The org lookup, and the check of its exit status.
OrgDisplay ==
  /\ script.pc = "orgDisplay"
  /\ \E outcome \in OrgDisplayOutcomes :
       LET ran == Run(script, [cmd |-> "sf org display"])
       IN  script' = IF outcome.status # 0
                       THEN Exit(ran, 1)
                       ELSE [ran EXCEPT !.pc = "extract",
                                        !.orgInfo = outcome.stdout]
  /\ UNCHANGED <<processEnv, startupVars, requestVars>>

\* The extraction of the five org details and their validation.
Extract ==
  /\ script.pc = "extract"
  /\ LET details == ExtractDetails(script.orgInfo)
     IN  script' = IF MissingDetails(details)
                     THEN Exit([script EXCEPT !.details = Some(details)], 1)
                     ELSE [script EXCEPT
                             !.details = Some(details),
                             !.pc = IF SessionPermissionSet # ""
                                      THEN "authSession" ELSE "request"]
  /\ UNCHANGED <<processEnv, startupVars, requestVars>>

\* Activation, first step: the query of the current AuthSession.
AuthSession ==
  /\ script.pc = "authSession"
  /\ \E stdout \in DataQueryOutcomes("0Ak1") :
       LET ran == Run(script, [cmd |-> "sf data query AuthSession"])
           id == JqFirstRecordId(stdout)
       IN  script' = IF NoId(id)
                       THEN Exit(ran, 1)
                       ELSE [ran EXCEPT !.pc = "permissionSet",
                                        !.authSessionId = id]
  /\ UNCHANGED <<processEnv, startupVars, requestVars>>

\* Activation, second step: the query of the permission set by its name.
PermissionSet ==
  /\ script.pc = "permissionSet"
  /\ \E stdout \in DataQueryOutcomes("0PS1") :
       LET ran == Run(script, [cmd |-> "sf data query PermissionSet"])
           id == JqFirstRecordId(stdout)
       IN  script' = IF NoId(id)
                       THEN Exit(ran, 1)
                       ELSE [ran EXCEPT !.pc = "activate",
                                        !.permissionSetId = id]
  /\ UNCHANGED <<processEnv, startupVars, requestVars>>

\* Activation, third step: the SessionPermSetActivation record is created.
Activate ==
  /\ script.pc = "activate"
  /\ \E stdout \in DataCreateOutcomes :
       LET ran == Run(script, [cmd |-> "sf data create record",
                               permissionSetId |-> script.permissionSetId,
                               authSessionId |-> script.authSessionId])
           id == JqResultId(stdout)
       IN  script' = IF NoId(id)
                       THEN Exit(ran, 1)
                       ELSE [ran EXCEPT !.pc = "request",
                                        !.activationId = id]
  /\ UNCHANGED <<processEnv, startupVars, requestVars>>

\* The request to the server: the client context is encoded, curl posts the
\* payload, and the response is printed.
Request ==
  /\ script.pc = "request"
  /\ \E outcome \in CurlOutcomes, uuid \in Uuids :
       LET ran == Run(script, [cmd |-> "curl",
                               context |-> ClientContextJson(script.details[1],
                                                             uuid),
                               payload |-> Positional(script.argv, 2)])
           next == AfterRequest(SessionPermissionSet, outcome)
       IN  script' = [ran EXCEPT
                        !.response = Some(outcome.response),
                        !.pc = next,
                        !.exit = IF next = "exited" THEN Some(0) ELSE @]
  /\ UNCHANGED <<processEnv, startupVars, requestVars>>

\* Deactivation: the activation record is deleted; a failure is a warning.
Deactivate ==
  /\ script.pc = "deactivate"
  /\ \E status \in DeleteStatuses :
       LET ran == Run(script, [cmd |-> "sf data delete record",
                               id |-> script.activationId])
       IN  script' = Exit([ran EXCEPT !.deleteStatus = status], 0)
  /\ UNCHANGED <<processEnv, startupVars, requestVars>>

NextInvoke ==
  \/ \E argv \in ArgvChoices : Invoke(argv)
  \/ CheckArguments
  \/ OrgDisplay
  \/ Extract
  \/ AuthSession
  \/ PermissionSet
  \/ Activate
  \/ Request
  \/ Deactivate

SpecInvoke == Init /\ [][NextInvoke]_vars

\* ---------------------------------------------------- vocabulary of the claims
\* The positions of the calls of one api in the call log of a request.
CallsOf(r, api) == {i \in 1..Len(calls[r]) : calls[r][i].api = api}

\* The request has been answered.
Done(r) == pc[r] = "done"

\* The response a finished request got.
Reply(r) == replies[r][Len(replies[r])]

\* The commit of the request has settled: with a result map, with an error.
Settled(r) == results[r] # Undefined
Returned(r) == Settled(r) /\ ~results[r][1].threw
Rejected(r) == Settled(r) /\ results[r][1].threw

\* The records of the query of a request, once it returned some.
Records(r) == queryResult[r][1].value.records
QueryReturned(r) == queryResult[r] # Undefined /\ ~queryResult[r][1].threw

\* The records the store holds that the unit of work of request r created.
StoredBy(r, type) ==
  {x \in store : x.id[2] = r /\ x.record.type = type}

\* The credential header is missing or does not decode.
BadCredential(h) ==
  \/ "x_client_context" \notin DOMAIN h
  \/ "base64" \notin DOMAIN h.x_client_context

\* C1: a 200 is sent only when the commit returned a successful entry for the
\* Quote create, and its quoteId is the non-empty id of that entry.
C1_OkOnlyWithStoredQuoteId ==
  \A r \in Requests : \A i \in 1..Len(replies[r]) :
    replies[r][i].status = 200 =>
      /\ Returned(r)
      /\ quoteRef[r][1] \in DOMAIN results[r][1].value
      /\ results[r][1].value[quoteRef[r][1]].success
      /\ "quoteId" \in DOMAIN replies[r][i].body
      /\ replies[r][i].body.quoteId = results[r][1].value[quoteRef[r][1]].id
      /\ Len(replies[r][i].body.quoteId) > 0

\* The store reported a failed operation of the commit of the request.
StoreReportedFailure(r) ==
  \/ Rejected(r) /\ results[r][1].error.name = "SalesforceError"
  \/ Returned(r) /\ \E ref \in DOMAIN results[r][1].value :
                      ~results[r][1].value[ref].success

\* C2: when the store reports a failed operation, by rejecting the commit or
\* by a failed entry of the result map, the response is 400-class and its
\* message includes the reason the store gave.
C2_StoreFailureIs400WithReason ==
  \A r \in Requests :
    Done(r) /\ StoreReportedFailure(r) =>
      /\ Reply(r).status \in 400..499
      /\ "message" \in DOMAIN Reply(r).body
      /\ Includes(Reply(r).body.message, StoreReason)

\* The commit of the request was rejected by a failure of the transport.
TransportFailure(r) == Rejected(r) /\ results[r][1].error.name = "FetchError"

\* C3: when the transport fails while the commit is in flight, the response
\* is 500-class.
C3_TransportFailureIs500 ==
  \A r \in Requests :
    Done(r) /\ TransportFailure(r) => Reply(r).status \in 500..599

\* The query of the request returned no records.
EmptyQuery(r) == QueryReturned(r) /\ Len(Records(r)) = 0

\* C4: a query that returns no records ends the request with one 404 whose
\* message contains the opportunity id, and no unit of work is created, no
\* operation registered and no commit called.
C4_EmptyQueryIs404 ==
  \A r \in Requests :
    EmptyQuery(r) =>
      /\ pc[r] \in {"rejected", "done"}
      /\ Done(r) =>
           /\ Len(replies[r]) = 1
           /\ Reply(r).status = 404
           /\ Includes(Reply(r).body.message,
                       Destructure(body[r]).opportunityId)
      /\ unitOfWork[r] = Undefined
      /\ CallsOf(r, "newUnitOfWork") = {}
      /\ CallsOf(r, "registerCreate") = {}
      /\ CallsOf(r, "commitUnitOfWork") = {}
C4_Witness ==
  \E r \in Requests : EmptyQuery(r) /\ Done(r) /\ Reply(r).status = 404

\* C5 as stated: a request whose credential header is missing or does not
\* parse is answered 401, and no query and no commit is issued for it.
C5_BadCredentialIs401 ==
  \A r \in Requests :
    pc[r] # "idle" /\ BadCredential(headers[r]) =>
      /\ calls[r] = <<>>
      /\ salesforce[r] = Undefined
      /\ pc[r] \in {"validation", "preHandler", "hookRejected", "done"}
      /\ Done(r) => Len(replies[r]) = 1 /\ Reply(r).status = 401

\* C5: a request whose credential header is missing or does not parse is
\* answered 401 when its body passes the schema of the route, and 400 by the
\* validation of the body otherwise; in both cases the handler does not run
\* and no query and no commit is issued for it.
C5_BadCredentialValidBodyIs401 ==
  \A r \in Requests :
    pc[r] # "idle" /\ BadCredential(headers[r]) =>
      /\ calls[r] = <<>>
      /\ salesforce[r] = Undefined
      /\ pc[r] \in {"validation", "preHandler", "hookRejected", "done"}
      /\ Done(r) =>
           /\ Len(replies[r]) = 1
           /\ Reply(r).status = IF ValidateBody(body[r]) THEN 401 ELSE 400
C5_Witness ==
  \E r \in Requests :
    /\ "x_client_context" \notin DOMAIN headers[r]
    /\ ValidateBody(body[r])
    /\ Done(r) /\ Reply(r).status = 401
    /\ \E q \in Requests :
         /\ "x_client_context" \in DOMAIN headers[q]
         /\ BadCredential(headers[q])
         /\ Done(q) /\ Reply(q).status = 401

\* C6: once a request has finished, the store holds its Quote together with
\* one QuoteLineItem per queried record, each linked to that Quote, or none
\* of them.
C6_AllOrNothing ==
  \A r \in Requests :
    Done(r) =>
      \/ StoredBy(r, "Quote") = {} /\ StoredBy(r, "QuoteLineItem") = {}
      \/ /\ QueryReturned(r)
         /\ Cardinality(StoredBy(r, "Quote")) = 1
         /\ Cardinality(StoredBy(r, "QuoteLineItem")) = Len(Records(r))
         /\ \A i \in 1..Len(Records(r)) :
              \E x \in StoredBy(r, "QuoteLineItem") :
                /\ x.record.fields.PricebookEntryId =
                     Records(r)[i].fields.PricebookEntryId
                /\ \E q \in StoredBy(r, "Quote") :
                     x.record.fields.QuoteId = q.id

\* The state of the batch of a request, read off its call log and the
\* settlement of its commit.
BatchState(r) ==
  IF Settled(r)
    THEN IF Returned(r) /\ ~StoreReportedFailure(r)
           THEN "COMMITTED" ELSE "FAILED"
  ELSE IF CallsOf(r, "commitUnitOfWork") # {} THEN "COMMIT_PENDING"
  ELSE IF CallsOf(r, "newUnitOfWork") # {} THEN "OPEN"
  ELSE "NONE"

\* The call log of a request keeps the order of a batch: the unit of work is
\* created before any registration on it, every registration precedes the
\* one commit, which is the last call and is handed exactly the operations
\* registered, in order.
BatchOrder(r) ==
  LET c == calls[r]
      news == CallsOf(r, "newUnitOfWork")
      regs == CallsOf(r, "registerCreate")
      commits == CallsOf(r, "commitUnitOfWork")
  IN /\ Cardinality(commits) <= 1
     /\ Cardinality(news) <= 1
     /\ \A i \in regs : \E k \in news :
          k < i /\ c[k].unitOfWork = c[i].unitOfWork
     /\ \A i \in regs : \A j \in commits : i < j
     /\ \A j \in commits :
          /\ j = Len(c)
          /\ Len(c[j].unitOfWork.operations) = Cardinality(regs)
          /\ \A i \in regs : \E n \in 1..Len(c[j].unitOfWork.operations) :
               /\ c[j].unitOfWork.operations[n].ref = c[i].ref
               /\ c[j].unitOfWork.operations[n].record = c[i].record
               /\ Cardinality({k \in regs : k <= i}) = n

\* A step of a batch: the commit is called once, a pending commit settles
\* once, and a batch whose commit was called, committed or failed gets no
\* further call and never leaves COMMITTED or FAILED.
BatchStep(r) ==
  /\ <<BatchState(r), BatchState(r)'>> \in
       { <<"NONE", "NONE">>, <<"NONE", "OPEN">>, <<"NONE", "COMMIT_PENDING">>,
         <<"OPEN", "OPEN">>, <<"OPEN", "COMMIT_PENDING">>,
         <<"COMMIT_PENDING", "COMMIT_PENDING">>,
         <<"COMMIT_PENDING", "COMMITTED">>, <<"COMMIT_PENDING", "FAILED">>,
         <<"COMMITTED", "COMMITTED">>, <<"FAILED", "FAILED">> }
  /\ BatchState(r) \in {"COMMIT_PENDING", "COMMITTED", "FAILED"} =>
       calls'[r] = calls[r]
  /\ BatchState(r) \in {"COMMITTED", "FAILED"} => results'[r] = results[r]

\* C7: within a request the batch goes OPEN -> register* -> COMMIT_PENDING ->
\* COMMITTED or FAILED: registrations precede the single commit, nothing is
\* registered after the commit was called, and the batch is neither
\* committed twice nor used again once it committed or failed.
C7_BatchLifecycle ==
  /\ [](\A r \in Requests : BatchOrder(r))
  /\ [][\A r \in Requests : BatchStep(r)]_vars
C7_Witness ==
  \E r, q \in Requests :
    /\ BatchState(r) = "COMMITTED" /\ Cardinality(CallsOf(r, "registerCreate")) = 3
    /\ BatchState(q) = "FAILED" /\ Cardinality(CallsOf(q, "registerCreate")) = 2

\* The request is inside the call of generateQuote or between its end and
\* the reply of the handler; generateQuote was invoked for the request.
InGenerateQuote(r) ==
  pc[r] \in {"query", "commit", "executed", "rejected", "resolved", "returned"}
Invoked(r) == InGenerateQuote(r) \/ (Done(r) /\ salesforce[r] # Undefined)

\* C8: no retry: a request for which generateQuote ran has exactly one query
\* call and at most one commit call in its log, whatever the store answered,
\* and the store never holds two Quotes of one request.
C8_NoRetry ==
  \A r \in Requests :
    /\ Cardinality(CallsOf(r, "commitUnitOfWork")) <= 1
    /\ Cardinality(CallsOf(r, "query")) = (IF Invoked(r) THEN 1 ELSE 0)
    /\ Cardinality(StoredBy(r, "Quote")) <= 1
C8_Witness ==
  \E r, q \in Requests :
    /\ Done(r) /\ TransportFailure(r) /\ StoredBy(r, "Quote") # {}
    /\ Cardinality(CallsOf(r, "commitUnitOfWork")) = 1
    /\ Done(q) /\ StoreReportedFailure(q)
    /\ Cardinality(CallsOf(q, "commitUnitOfWork")) = 1

\* C9: for a query result of N >= 1 records the committed batch holds exactly
\* N+1 creates: the Quote first, then one QuoteLineItem per record in the
\* order of the query result, each with the placeholder of the reference of
\* that Quote, a reference of this very batch, as its QuoteId.
C9_BatchShape ==
  \A r \in Requests : \A j \in CallsOf(r, "commitUnitOfWork") :
    LET ops == calls[r][j].unitOfWork.operations
        N == Len(Records(r))
    IN /\ N >= 1
       /\ Len(ops) = N + 1
       /\ \A n \in 1..Len(ops) : ops[n].method = "create"
       /\ \A m, n \in 1..Len(ops) : ops[m].ref = ops[n].ref => m = n
       /\ ops[1].record.type = "Quote"
       /\ ops[1].ref.unitOfWork = calls[r][j].unitOfWork.id
       /\ \A q \in Requests \ {r} : \A k \in CallsOf(q, "commitUnitOfWork") :
            calls[q][k].unitOfWork.id # calls[r][j].unitOfWork.id
       /\ \A i \in 1..N :
            /\ ops[i + 1].record.type = "QuoteLineItem"
            /\ ops[i + 1].record.fields.PricebookEntryId =
                 Records(r)[i].fields.PricebookEntryId
            /\ ops[i + 1].record.fields.QuoteId = <<"@{", ops[1].ref, ".id}">>
C9_Witness ==
  \E r, q \in Requests :
    /\ r # q
    /\ CallsOf(r, "commitUnitOfWork") # {} /\ Len(Records(r)) = 2
    /\ CallsOf(q, "commitUnitOfWork") # {} /\ Len(Records(q)) = 1

\* The result map of the commit lacks an entry of a registered operation.
MissingResult(r) ==
  /\ Returned(r)
  /\ \E n \in 1..Len(unitOfWork[r][1].operations) :
       unitOfWork[r][1].operations[n].ref \notin DOMAIN results[r][1].value

\* C10: when the result map of the commit lacks the entry of an operation
\* registered in the batch, the response is not a 200.
C10_MissingResultIsError ==
  \A r \in Requests :
    Done(r) /\ MissingResult(r) => Reply(r).status # 200

\* The queried record carries a DiscountOverride__c value the callback takes
\* as one: a truthy value, neither null nor 0.
HasOverride(record) ==
  /\ "DiscountOverride__c" \in DOMAIN record.fields
  /\ record.fields.DiscountOverride__c # Undefined
  /\ record.fields.DiscountOverride__c[1] # 0

\* The unit price of (Quantity * UnitPrice) discounted at rate hundredths,
\* in hundredths.
PriceAt(record, rate) ==
  Num(((record.fields.Quantity * record.fields.UnitPrice) * (100 - rate))
      \div record.fields.Quantity)

\* C11: with ENABLE_DISCOUNT_OVERRIDES=True, a line item that carries a
\* DiscountOverride__c value is priced with the override in place of the
\* regional rate, and a line item without one with the regional rate.
C11_OverrideReplacesRegionalRate ==
  \A r \in Requests : \A j \in CallsOf(r, "commitUnitOfWork") :
    processEnv = Some("True") =>
      \A i \in 1..Len(Records(r)) :
        Records(r)[i].fields.Quantity # 0 =>
          calls[r][j].unitOfWork.operations[i + 1].record.fields.UnitPrice =
            IF HasOverride(Records(r)[i])
              THEN PriceAt(Records(r)[i],
                           Records(r)[i].fields.DiscountOverride__c[1])
              ELSE PriceAt(Records(r)[i], discounts.US)

\* The query of the request was refused for the column DiscountOverride__c.
ColumnRefused(r) ==
  /\ queryResult[r] # Undefined
  /\ queryResult[r][1].threw
  /\ Includes(queryResult[r][1].error.message, NoSuchColumn)

\* C12: with overrides enabled, a request whose query the store refuses with
\* 'No such column' for DiscountOverride__c fails with status 503.
C12_ColumnRefusedIs503 ==
  \A r \in Requests :
    processEnv = Some("True") /\ Done(r) /\ ColumnRefused(r) =>
      Reply(r).status = 503

\* The query call of the request threw: a fault that is neither the empty
\* query result nor a failure of the commit.
QueryThrew(r) == queryResult[r] # Undefined /\ queryResult[r][1].threw

\* C13: a request whose query call throws is answered with status 500 and a
\* body that carries a message, whatever properties the thrown error has.
C13_UnexpectedFaultIs500 ==
  \A r \in Requests :
    Done(r) /\ QueryThrew(r) =>
      /\ Reply(r).status = 500
      /\ "message" \in DOMAIN Reply(r).body

\* C14: every response of the route whose status is not 200 has a body with
\* exactly the properties error, which is true, and message, a non-empty
\* string.
C14_ErrorBodyShape ==
  \A r \in Requests : \A i \in 1..Len(replies[r]) :
    replies[r][i].status # 200 =>
      /\ DOMAIN replies[r][i].body = {"error", "message"}
      /\ replies[r][i].body.error = TRUE
      /\ Len(replies[r][i].body.message) >= 1
      /\ replies[r][i].body.message[1] # ""

\* The references of the operations of the batch of a commit call.
RefsOf(r, j) ==
  {calls[r][j].unitOfWork.operations[n].ref :
     n \in 1..Len(calls[r][j].unitOfWork.operations)}

\* C15: whatever the interleaving of the requests in flight, the batch a
\* request commits is a unit of work of its own: its Quote carries the
\* opportunityId of that request, its line items come from the records of
\* that request's query, position by position, every operation was
\* registered on that unit of work, and it shares no operation with the
\* batch of another request.
C15_RequestsIndependent ==
  \A r \in Requests : \A j \in CallsOf(r, "commitUnitOfWork") :
    LET ops == calls[r][j].unitOfWork.operations IN
    /\ ops[1].record.fields.OpportunityId =
         Destructure(body[r]).opportunityId
    /\ Len(ops) = Len(Records(r)) + 1
    /\ \A i \in 1..Len(Records(r)) :
         /\ ops[i + 1].record.fields.PricebookEntryId =
              Records(r)[i].fields.PricebookEntryId
         /\ ops[i + 1].record.fields.Quantity = Records(r)[i].fields.Quantity
    /\ \A n \in 1..Len(ops) : ops[n].ref.unitOfWork = calls[r][j].unitOfWork.id
    /\ \A q \in Requests \ {r} : \A k \in CallsOf(q, "commitUnitOfWork") :
         RefsOf(r, j) \cap RefsOf(q, k) = {}
C15_Witness ==
  \E r, q \in Requests :
    /\ r # q
    /\ pc[r] = "commit" /\ pc[q] = "commit"
    /\ Records(r) # Records(q)
    /\ Destructure(body[r]).opportunityId # Destructure(body[q]).opportunityId

\* The request has been through the preHandlers of its route.
PastPreHandlers(r) ==
  \/ pc[r] \in {"hookRejected", "handler"} \/ InGenerateQuote(r)
  \/ Done(r) /\ ValidateBody(body[r])

\* The credential of the request is its own: request.salesforce and every
\* call made to the store for the request carry the client context that the
\* header of that very request encodes, which is the context of no other
\* request; and the hooks and the route table of the process are what the
\* start-up left.
CredentialScoped(r) ==
  /\ salesforce[r] # Undefined =>
       /\ parseLog[r] = <<TRUE>>
       /\ headers[r].x_client_context =
            Base64Encode(salesforce[r][1].context)
  /\ \A i \in 1..Len(calls[r]) :
       "context" \in DOMAIN calls[r][i] =>
         /\ headers[r].x_client_context =
              Base64Encode(calls[r][i].context)
         /\ \A q \in Requests \ {r} :
              calls[r][i].context # ClientContext(q)
  /\ pc[r] # "idle" =>
       /\ onRouteHooks = HooksOf("salesforcePlugin")
       /\ \A i \in 1..Len(routes) :
            PreHandlersOf(routes[i]) =
              IF registered[i].hooks = <<>>
                THEN registered[i].list
                ELSE Append(registered[i].list, SalesforcePreHandler)

\* C16 as stated: parseRequest is called exactly once for every request,
\* never more than once and once by the time the request has been answered,
\* and the credential of the request is its own.
C16_ParsedOnceForEveryRequest ==
  \A r \in Requests :
    /\ Len(parseLog[r]) <= 1
    /\ Done(r) => Len(parseLog[r]) = 1
    /\ CredentialScoped(r)

\* C16: parseRequest is called exactly once for a request whose body passes
\* the schema of the route, when its preHandler runs, and never again; it is
\* not called at all for a request that the validation of the body turns
\* down; and the credential of the request is its own.
C16_CredentialRequestScoped ==
  \A r \in Requests :
    /\ Len(parseLog[r]) = IF PastPreHandlers(r) THEN 1 ELSE 0
    /\ CredentialScoped(r)
C16_Witness ==
  \E r, q \in Requests :
    /\ r # q
    /\ CallsOf(r, "commitUnitOfWork") # {} /\ pc[q] = "query"
    /\ parseLog[r] = <<TRUE>> /\ parseLog[q] = <<TRUE>>
    /\ salesforce[r] # salesforce[q]

\* C17: a batch of more operations than the ceiling of the store is never
\* handed to a commit call: it is turned down before the store is asked.
C17_OversizedBatchRejectedLocally ==
  \A r \in Requests : \A j \in CallsOf(r, "commitUnitOfWork") :
    Len(calls[r][j].unitOfWork.operations) <= OperationCeiling

\* The fields the query of every request selects without the override.
BaseFields == <<"Id", "Product2Id", "Quantity", "UnitPrice", "PricebookEntryId">>

\* C18: the flag is on exactly when the environment variable is the string
\* 'True'; a query selects DiscountOverride__c, after the five base fields,
\* exactly when the flag is on, and the five base fields alone otherwise.
C18_OverrideFieldIffEnabled ==
  /\ config.features.enableDiscountOverrides <=> processEnv = Some("True")
  /\ \A r \in Requests : \A i \in CallsOf(r, "query") :
       /\ Includes(calls[r][i].soql[2], "DiscountOverride__c")
            <=> processEnv = Some("True")
       /\ calls[r][i].soql[2] =
            IF processEnv = Some("True")
              THEN Append(BaseFields, "DiscountOverride__c")
              ELSE BaseFields
C18_Witness ==
  \E r, q \in Requests :
    /\ r # q
    /\ processEnv = Some("True")
    /\ CallsOf(r, "query") # {} /\ CallsOf(q, "query") # {}
    /\ QueryReturned(r)
    /\ \E i \in 1..Len(Records(r)) : HasOverride(Records(r)[i])

\* The plugin had added its hook when the i-th route was registered.
AfterPlugin(i) == registered[i].hooks # <<>>

\* C19: a route registered after the plugin has an array of preHandlers that
\* holds the credential preHandler exactly once, in the last place, after
\* the preHandlers the route declared, all of them and in their order: none
\* for a route that declared none, the one function for a route that
\* declared a function, the elements of the array for one that declared an
\* array.  A route registered before the plugin is left as declared.
C19_CredentialPreHandlerLast ==
  \A i \in 1..Len(registered) :
    LET declared == registered[i].list
        list == PreHandlersOf(routes[i])
    IN /\ routes[i].path = registered[i].options.path
       /\ ~AfterPlugin(i) => list = declared
       /\ AfterPlugin(i) =>
            /\ routes[i].preHandler # Undefined
            /\ "ref" \in DOMAIN routes[i].preHandler[1]
            /\ Len(list) = Len(declared) + 1
            /\ list[Len(list)] = SalesforcePreHandler
            /\ Cardinality({n \in 1..Len(list) :
                              list[n] = SalesforcePreHandler}) = 1
            /\ \A n \in 1..Len(declared) : list[n] = declared[n]

\* The positions of the route POST /api/generatequote in the route table.
QuoteRoutes == {i \in 1..Len(routes) : routes[i].path = "/api/generatequote"}

\* C20: the API routes are registered after the plugin has added its hook,
\* so once the server takes requests the route /api/generatequote carries
\* the credential preHandler; and generateQuote has made calls only for a
\* request whose one parseRequest call returned and set request.salesforce.
C20_GenerateQuoteBehindCredential ==
  /\ \A i \in QuoteRoutes :
       /\ AfterPlugin(i)
       /\ \E n \in 1..Len(PreHandlersOf(routes[i])) :
            PreHandlersOf(routes[i])[n] = SalesforcePreHandler
  /\ \A r \in Requests :
       /\ pc[r] # "idle" => server = Len(StartupOrder) /\ QuoteRoutes # {}
       /\ calls[r] # <<>> \/ InGenerateQuote(r) =>
            /\ parseLog[r] = <<TRUE>>
            /\ salesforce[r] # Undefined
C20_Witness ==
  \E r, q \in Requests :
    /\ QuoteRoutes # {}
    /\ CallsOf(r, "query") # {} /\ parseLog[r] = <<TRUE>>
    /\ Done(q) /\ parseLog[q] = <<FALSE>> /\ calls[q] = <<>>

\* generateQuote was invoked for the request and threw: the handler caught
\* the error and replied with its statusCode and its message.
GenerateQuoteThrew(r) == Done(r) /\ Invoked(r) /\ Reply(r).status # 200

\* C21: an error that leaves generateQuote carries the statusCode 400, 404
\* or 500: the 404 of the empty query result and the 400 of the failed
\* commit leave as they were raised, and an error thrown without a
\* statusCode leaves wrapped as a 500 whose message starts with
\* 'An unexpected error occurred: '.
C21_ErrorStatusCodes ==
  \A r \in Requests :
    GenerateQuoteThrew(r) =>
      /\ Reply(r).status \in {400, 404, 500}
      /\ EmptyQuery(r) =>
           /\ Reply(r).status = 404
           /\ Reply(r).body.message[1] =
                "No OpportunityLineItems found for Opportunity ID: "
      /\ Settled(r) =>
           /\ Reply(r).status = 400
           /\ Reply(r).body.message[1] = "Failed to create quote: "
      /\ QueryThrew(r) /\ "statusCode" \notin DOMAIN queryResult[r][1].error =>
           /\ Reply(r).status = 500
           /\ Reply(r).body.message[1] = "An unexpected error occurred: "

\* C22: a request is answered once: it has no reply until it is done and
\* exactly one from then on, on every path through the handler, and the
\* status of the reply is 200, 400, 401, 404 or 500.
C22_ExactlyOneReply ==
  \A r \in Requests :
    /\ Len(replies[r]) = IF Done(r) THEN 1 ELSE 0
    /\ \A i \in 1..Len(replies[r]) :
         replies[r][i].status \in {200, 400, 401, 404, 500}

\* The operations registered on the unit of work of a request, in order.
IsRegisterCreate(call) == call.api = "registerCreate"
Registered(r) == SelectSeq(calls[r], IsRegisterCreate)

\* C23: of the creates registered for a request the first is the Quote,
\* named 'New Quote' and with the opportunityId of the body of the request
\* as OpportunityId; the create after it at position i is the QuoteLineItem
\* of the i-th queried record, with the PricebookEntryId and the Quantity of
\* that record, and there is one create per queried record, no more and no
\* fewer.
C23_FieldsCopiedByPosition ==
  \A r \in Requests :
    Registered(r) # <<>> =>
      /\ Len(Registered(r)) = Len(Records(r)) + 1
      /\ Registered(r)[1].record.type = "Quote"
      /\ Registered(r)[1].record.fields.Name = "New Quote"
      /\ Registered(r)[1].record.fields.OpportunityId =
           Destructure(body[r]).opportunityId
      /\ \A i \in 1..Len(Records(r)) :
           /\ Registered(r)[i + 1].record.type = "QuoteLineItem"
           /\ Registered(r)[i + 1].record.fields.PricebookEntryId =
                Records(r)[i].fields.PricebookEntryId
           /\ Registered(r)[i + 1].record.fields.Quantity =
                Records(r)[i].fields.Quantity
C23_Witness ==
  \E r \in Requests :
    /\ Len(Registered(r)) = 3
    /\ Records(r)[1].fields.PricebookEntryId = "pbe3"
    /\ Records(r)[2].fields.PricebookEntryId = "pbe1"
    /\ Records(r)[1].fields.Quantity # Records(r)[2].fields.Quantity

\* C24: the UnitPrice registered for every queried record, whatever its
\* Quantity and a Quantity of 0 included, is the number UnitPrice * (1 - rate)
\* of that record, with the rate of the region US.
C24_UnitPriceWellDefined ==
  \A r \in Requests :
    Registered(r) # <<>> =>
      \A i \in 1..Len(Records(r)) :
        Registered(r)[i + 1].record.fields.UnitPrice =
          Num(Records(r)[i].fields.UnitPrice * (100 - getDiscountForRegion("US")))

\* ------------------------------------------------------------ bin/invoke.sh
\* The names of the commands the script has run, in order.
CommandNames == [i \in 1..Len(script.commands) |-> script.commands[i].cmd]

IsElevationStep(name) ==
  name \in {"sf data create record", "curl", "sf data delete record"}

\* The activation, the request and the deactivation the script has run.
ElevationSteps == SelectSeq(CommandNames, IsElevationStep)

\* The commands of the activation and of the deactivation.
ElevationCommands ==
  {"sf data query AuthSession", "sf data query PermissionSet",
   "sf data create record", "sf data delete record"}

\* s is a prefix of t.
IsPrefix(s, t) == Len(s) <= Len(t) /\ s = SubSeq(t, 1, Len(s))

\* The activation record was created and its id is in ACTIVATION_ID.
Activated == script.activationId # ""

\* The script has run to its end or has left.
Exited == script.pc = "exited"

\* C25: with a permission set given and activated, the script runs the
\* activation, then the request, then the deactivation of the activation
\* record it created, and a script that has sent the request ends with that
\* deactivation whatever curl came back with; with no permission set given
\* it runs no command of the activation or of the deactivation.
C25_ActivationRequestDeactivation ==
  /\ SessionPermissionSet = "" =>
       \A i \in 1..Len(CommandNames) : CommandNames[i] \notin ElevationCommands
  /\ Activated =>
       /\ SessionPermissionSet # ""
       /\ IsPrefix(ElevationSteps,
                   <<"sf data create record", "curl", "sf data delete record">>)
       /\ Exited =>
            /\ script.exit = Some(0)
            /\ Len(ElevationSteps) = 3
            /\ script.commands[Len(script.commands)] =
                 [cmd |-> "sf data delete record", id |-> script.activationId]

\* An elevated run whose curl failed has ended with the deactivation.
C25_Witness ==
  /\ Exited /\ Activated
  /\ script.response = Some("")
  /\ ElevationSteps = <<"sf data create record", "curl", "sf data delete record">>

\* A run without a permission set has sent the request and ended.
C25_WitnessNoPermissionSet ==
  /\ Exited /\ SessionPermissionSet = ""
  /\ CommandNames = <<"sf org display", "curl">>

\* The script has sent the request to the server.
RequestSent == \E i \in 1..Len(CommandNames) : CommandNames[i] = "curl"

\* The org lookup has succeeded and its output is in SF_ORG_INFO.
OrgLookupSucceeded == script.orgInfo # Undefined

\* The org lookup result has no value for the detail.
DetailAbsent(field) ==
  \/ "result" \notin DOMAIN script.orgInfo[1]
  \/ field \notin DOMAIN script.orgInfo[1].result
  \/ script.orgInfo[1].result[field] = ""

\* C26: the request is sent only with both arguments given, the org lookup
\* succeeded, every required org detail present in its result and, when a
\* permission set is given, the activation succeeded; a script that ends
\* without sending the request has left with status 1.
C26_RequestOnlyWithPrerequisites ==
  /\ RequestSent =>
       /\ ~MissingArguments(script.argv)
       /\ OrgLookupSucceeded
       /\ \A field \in OrgDetails : ~DetailAbsent(field)
       /\ SessionPermissionSet # "" => Activated
  /\ (Exited /\ ~RequestSent) => script.exit = Some(1)

====
